---- MODULE Spec2Model ----
(***************************************************************************)
(* Model of Spreadsheet (src/Spreadsheet.cpp): parse_input loads a grid of *)
(* cells, topological_sort_dependencies orders the dependency registry and *)
(* marks cells on cycle detection, resolve_dependencies walks the order,   *)
(* substituting references and evaluating postfix expressions.             *)
(*                                                                         *)
(* Text is modelled by its tokens.  A cell's contents is the sequence of   *)
(* whitespace-separated tokens `iss >> token` yields.  An address such as  *)
(* "A0" is the pair <<letters, row>>, letters being a sequence of letter   *)
(* indices ('A' = 0).  Integer values stay far from the 32-bit limits, so  *)
(* int arithmetic is exact.  max_col and max_row, which only print_output  *)
(* reads, are left out.                                                    *)
(***************************************************************************)
EXTENDS Integers, Sequences, FiniteSets, TLC

\* Bounds of the model.
NumRows == 3        \* lines of the input file of Spec (one cell per line)
MaxTotalRefs == 2   \* address tokens in the whole input file of Spec
MaxInt == 3         \* literals of SpecCalc range over -MaxInt..MaxInt

VARIABLES
    file,           \* the input: a sequence of lines, each a sequence of cells
    pc,             \* position of the run: "load", "sort", "walk", "done"
    row, col,       \* parse_input's loop counters
    cells,          \* Spreadsheet::cells, keyed by <<col, row>>
    dependencies,   \* Spreadsheet::dependencies, keyed by address
    todo,           \* keys the range-for of topological_sort_dependencies has yet to visit
    marked,         \* topological_sort_dependencies' locals
    recStack,
    res,
    stack,          \* active calls of topological_dfs_helper, outermost first
    idx,            \* position of resolve_dependencies' walk in sorted_dependencies
    forced,         \* history: addresses whose entry the sort has set to Error
    run,            \* 1 for the first session, 2 after clear() and a second parse_input
    prev            \* history: cells at the end of the first session

vars == <<file, pc, row, col, cells, dependencies, todo, marked, recStack,
          res, stack, idx, forced, run, prev>>

----------------------------------------------------------------------------
\* Tokens

Num(n) == [kind |-> "int", col |-> <<>>, n |-> n, op |-> ""]
Op(s) == [kind |-> "op", col |-> <<>>, n |-> 0, op |-> s]
Ref(address) == [kind |-> "addr", col |-> address[1], n |-> address[2], op |-> ""]
\* The sentinel "#ERR" resolve_references writes: a token that is no number.
ErrSentinel == [kind |-> "word", col |-> <<>>, n |-> 0, op |-> "#ERR"]

\* The text of an address token, the key of the dependency registry.
TokenText(token) == <<token.col, token.n>>

\* CellValue = std::variant<int, CellState>
IntValue(v) == [tag |-> "int", v |-> v]
Error == [tag |-> "Error", v |-> 0]
\* What a lookup of a coordinate without entry amounts to.
Empty == [tag |-> "Empty", v |-> 0]

EmptyMap == [k \in {} |-> Error]

CellAt(cs, coords) == IF coords \in DOMAIN cs THEN cs[coords] ELSE Empty

----------------------------------------------------------------------------
\* Address codec

RECURSIVE coord_to_col_loop(_, _)
coord_to_col_loop(n, result) ==
    IF n >= 0
    THEN coord_to_col_loop((n \div 26) - 1, <<n % 26>> \o result)
    ELSE result

coord_to_col(n) == coord_to_col_loop(n, <<>>)

RECURSIVE col_to_coord_loop(_, _, _)
col_to_coord_loop(letters, i, result) ==
    IF i > Len(letters) THEN result
    ELSE col_to_coord_loop(letters, i + 1, result * 26 + letters[i])

col_to_coord(letters) == col_to_coord_loop(letters, 1, 0)

coords_to_address(coords) == <<coord_to_col(coords[1]), coords[2]>>

address_to_coords(address) == <<col_to_coord(address[1]), address[2]>>

\* A token with a letter: an address or the sentinel.
contains_letter(cell_contents) ==
    \E i \in 1..Len(cell_contents) : cell_contents[i].kind \in {"addr", "word"}

is_letter_number_format(token) == token.kind = "addr"

----------------------------------------------------------------------------
\* calculate_postfix

\* int division of C++: the quotient truncated toward zero.
IntDiv(a, b) ==
    LET abs(x) == IF x < 0 THEN -x ELSE x
        q == abs(a) \div abs(b)
    IN  IF (a < 0) # (b < 0) THEN -q ELSE q

\* The operation performed on the operands in pop order.
Perform(op, op1, op2) ==
    CASE op = "+" -> op1 + op2
      [] op = "-" -> op1 - op2
      [] op = "*" -> op1 * op2
      [] op = "/" -> IntDiv(op1, op2)

\* The while loop: the operand stack (top last) and the error flag at its end.
RECURSIVE postfix_loop(_, _, _)
postfix_loop(expression, i, operands) ==
    IF i > Len(expression) THEN [operands |-> operands, error |-> FALSE]
    ELSE LET token == expression[i]
             n == Len(operands)
         IN  IF token.kind = "op"
             THEN IF n < 2 THEN [operands |-> operands, error |-> TRUE]
                  ELSE LET op1 == operands[n]
                           op2 == operands[n - 1]
                           rest == SubSeq(operands, 1, n - 2)
                       IN  IF token.op = "/" /\ op2 = 0
                           THEN [operands |-> rest, error |-> TRUE]
                           ELSE postfix_loop(expression, i + 1,
                                    Append(rest, Perform(token.op, op1, op2)))
             ELSE IF token.kind = "int"
                  THEN postfix_loop(expression, i + 1, Append(operands, token.n))
                  ELSE [operands |-> operands, error |-> TRUE]

\* The value calculate_postfix stores at the cell.
calculate_postfix(expression) ==
    LET r == postfix_loop(expression, 1, <<>>)
    IN  IF Len(r.operands) # 1 \/ r.error THEN Error
        ELSE IntValue(r.operands[Len(r.operands)])

----------------------------------------------------------------------------
\* parse_tokens

\* dependencies[key], created with an empty formula and no dependents when absent.
Entry(deps, key) ==
    IF key \in DOMAIN deps THEN deps[key] ELSE [first |-> <<>>, second |-> <<>>]

\* The loop recording cell_address as a dependent of every address token.
RECURSIVE record_dependents(_, _, _, _)
record_dependents(deps, cell_address, cell_contents, i) ==
    IF i > Len(cell_contents) THEN deps
    ELSE LET token == cell_contents[i]
             key == TokenText(token)
             e == Entry(deps, key)
         IN  IF is_letter_number_format(token)
             THEN record_dependents(
                      (key :> [e EXCEPT !.second = Append(e.second, cell_address)]) @@ deps,
                      cell_address, cell_contents, i + 1)
             ELSE record_dependents(deps, cell_address, cell_contents, i + 1)

\* The cells and the registry after parse_tokens(cell_coords, cell_contents).
parse_tokens(cs, deps, cell_coords, cell_contents) ==
    IF contains_letter(cell_contents)
    THEN LET cell_address == coords_to_address(cell_coords)
             e == Entry(deps, cell_address)
             d1 == (cell_address :> [e EXCEPT !.first = cell_contents]) @@ deps
         IN  [cells |-> cs,
              dependencies |-> record_dependents(d1, cell_address, cell_contents, 1)]
    ELSE [cells |-> (cell_coords :> calculate_postfix(cell_contents)) @@ cs,
          dependencies |-> deps]

----------------------------------------------------------------------------
\* resolve_references

\* A variant that reads a cell without an integer as 0.
RECURSIVE resolve_loop_lenient(_, _, _, _)
resolve_loop_lenient(cs, formula, i, resolved_formula) ==
    IF i > Len(formula) THEN resolved_formula
    ELSE LET token == formula[i]
             v == CellAt(cs, address_to_coords(TokenText(token)))
         IN  IF is_letter_number_format(token)
             THEN resolve_loop_lenient(cs, formula, i + 1,
                      Append(resolved_formula,
                             Num(IF v.tag = "int" THEN v.v ELSE 0)))
             ELSE resolve_loop_lenient(cs, formula, i + 1,
                                       Append(resolved_formula, token))

\* The token loop: the resolved formula, or the sentinel alone.
RECURSIVE resolve_loop(_, _, _, _)
resolve_loop(cs, formula, i, resolved_formula) ==
    IF i > Len(formula) THEN resolved_formula
    ELSE LET token == formula[i]
             coords == address_to_coords(TokenText(token))
         IN  IF is_letter_number_format(token)
             THEN IF coords \in DOMAIN cs /\ cs[coords].tag = "int"
                  THEN resolve_loop(cs, formula, i + 1,
                           Append(resolved_formula, Num(cs[coords].v)))
                  ELSE <<ErrSentinel>>
             ELSE resolve_loop(cs, formula, i + 1, Append(resolved_formula, token))

resolve_references_lenient(cs, formula) == resolve_loop_lenient(cs, formula, 1, <<>>)

\* The formula resolve_references stores back for a cell.
resolve_references(cs, formula) == resolve_loop(cs, formula, 1, <<>>)

\* res.insert(res.begin(), x), and a variant that appends instead.
PushBack(r, x) == Append(r, x)

InsertFront(r, x) == <<x>> \o r

----------------------------------------------------------------------------
\* Inputs

\* Addresses of the cells the input file of Spec writes: column A, one per line.
Written == {coords_to_address(<<0, r>>) : r \in 0..(NumRows - 1)}

\* An address no input writes: "B5".
Unwritten == <<coord_to_col(1), 5>>

Addresses == Written \cup {Unwritten}

\* The formula "1 r1 + r2 + ..." over the addresses rs; "2" when there are none.
RECURSIVE SumTokens(_, _)
SumTokens(rs, i) ==
    IF i > Len(rs) THEN <<>>
    ELSE <<Ref(rs[i]), Op("+")>> \o SumTokens(rs, i + 1)

Contents(rs) == IF rs = <<>> THEN <<Num(2)>> ELSE <<Num(1)>> \o SumTokens(rs, 1)

\* Cell contents with at most t address tokens.
Menu(t) == {Contents(rs) : rs \in UNION {[1..k -> Addresses] : k \in 0..t}}

AddressTokens(cell_contents) ==
    Cardinality({i \in 1..Len(cell_contents) : cell_contents[i].kind = "addr"})

\* Files of n lines of one cell each, with at most t address tokens in all.
RECURSIVE Files(_, _)
Files(n, t) ==
    IF n = 0 THEN {<<>>}
    ELSE UNION {{Append(f, <<c>>) : f \in Files(n - 1, t - AddressTokens(c))} :
                c \in Menu(t)}

\* Files of SpecCalc: one cell holding a plain postfix expression.
Lits == (-MaxInt)..MaxInt
Ops == {"+", "-", "*", "/"}
Binary == {<<Num(a), Num(b), Op(o)>> : a \in Lits, b \in Lits, o \in Ops}
NestedLeft ==
    {<<Num(a), Num(b), Op(o), Num(c), Op(p)>> :
        a \in Lits, b \in Lits, c \in {-2, 2}, o \in Ops, p \in Ops}
NestedRight ==
    {<<Num(c), Num(a), Num(b), Op(o), Op(p)>> :
        a \in Lits, b \in Lits, c \in {-2, 2}, o \in Ops, p \in Ops}
CalcFiles == {<<<<e>>>> : e \in Binary \cup NestedLeft \cup NestedRight}

----------------------------------------------------------------------------
\* State machine

InitWith(f) ==
    /\ file = f
    /\ pc = "load"
    /\ row = 0
    /\ col = 0
    /\ cells = EmptyMap
    /\ dependencies = EmptyMap
    /\ todo = {}
    /\ marked = {}
    /\ recStack = {}
    /\ res = <<>>
    /\ stack = <<>>
    /\ idx = 1
    /\ forced = {}
    /\ run = 1
    /\ prev = EmptyMap

Init == \E f \in Files(NumRows, MaxTotalRefs) : InitWith(f)

InitCalc == \E f \in CalcFiles : InitWith(f)

\* parse_input: one iteration of the inner loop, parse_tokens of the next cell.
ParseCell ==
    /\ pc = "load"
    /\ row < Len(file)
    /\ col < Len(file[row + 1])
    /\ LET r == parse_tokens(cells, dependencies, <<col, row>>, file[row + 1][col + 1])
       IN  /\ cells' = r.cells
           /\ dependencies' = r.dependencies
    /\ col' = col + 1
    /\ UNCHANGED <<file, pc, row, todo, marked, recStack, res, stack, idx,
                   forced, run, prev>>

\* parse_input: the end of a line.
EndOfLine ==
    /\ pc = "load"
    /\ row < Len(file)
    /\ col = Len(file[row + 1])
    /\ row' = row + 1
    /\ col' = 0
    /\ UNCHANGED <<file, pc, cells, dependencies, todo, marked, recStack, res,
                   stack, idx, forced, run, prev>>

\* parse_input calls resolve_dependencies, which calls topological_sort_dependencies.
BeginSort ==
    /\ pc = "load"
    /\ row = Len(file)
    /\ pc' = "sort"
    /\ todo' = DOMAIN dependencies
    /\ marked' = {}
    /\ recStack' = {}
    /\ res' = <<>>
    /\ UNCHANGED <<file, row, col, cells, dependencies, stack, idx, forced, run, prev>>

\* The entry of topological_dfs_helper(x, ...).
Frame(x) == [x |-> x, i |-> 1, has_cycle |-> FALSE]

\* The range-for reaches a key that is not marked and calls the helper on it.
\* An unordered_map iterates its keys in an unspecified order.
VisitKey ==
    /\ pc = "sort"
    /\ stack = <<>>
    /\ \E key \in todo :
        /\ key \notin marked
        /\ todo' = todo \ {key}
        /\ marked' = marked \cup {key}
        /\ recStack' = recStack \cup {key}
        /\ stack' = <<Frame(key)>>
    /\ UNCHANGED <<file, pc, row, col, cells, dependencies, res, idx, forced, run, prev>>

\* The range-for reaches a key that is marked already.
SkipKey ==
    /\ pc = "sort"
    /\ stack = <<>>
    /\ \E key \in todo :
        /\ key \in marked
        /\ todo' = todo \ {key}
    /\ UNCHANGED <<file, pc, row, col, cells, dependencies, marked, recStack, res,
                   stack, idx, forced, run, prev>>

\* The cells after the loop that sets every address of r to Error.
MarkError(cs, r) ==
    LET hit == {address_to_coords(r[i]) : i \in 1..Len(r)}
    IN  [c \in DOMAIN cs \cup hit |-> IF c \in hit THEN Error ELSE cs[c]]

\* The innermost call returns v, res being r by then: to its caller, which ors v
\* into has_cycle, or to the range-for, which marks all of res when v is true.
Return(v, r) ==
    LET n == Len(stack) IN
    IF n = 1
    THEN /\ stack' = <<>>
         /\ cells' = IF v THEN MarkError(cells, r) ELSE cells
         /\ forced' = IF v THEN forced \cup {r[i] : i \in 1..Len(r)} ELSE forced
    ELSE /\ stack' = [SubSeq(stack, 1, n - 1) EXCEPT
                         ![n - 1].has_cycle = stack[n - 1].has_cycle \/ v]
         /\ UNCHANGED <<cells, forced>>

Top == stack[Len(stack)]
Dependents(x) == dependencies[x].second

\* The dependent w is in recStack: insert x into res and return true.
DfsCycle ==
    /\ pc = "sort"
    /\ stack # <<>>
    /\ Top.i <= Len(Dependents(Top.x))
    /\ Dependents(Top.x)[Top.i] \in recStack
    /\ res' = InsertFront(res, Top.x)
    /\ Return(TRUE, res')
    /\ UNCHANGED <<file, pc, row, col, dependencies, todo, marked, recStack, idx,
                   run, prev>>

\* The dependent w is unmarked: the recursive call.
DfsDescend ==
    /\ pc = "sort"
    /\ stack # <<>>
    /\ Top.i <= Len(Dependents(Top.x))
    /\ LET w == Dependents(Top.x)[Top.i] IN
        /\ w \notin recStack
        /\ w \notin marked
        /\ marked' = marked \cup {w}
        /\ recStack' = recStack \cup {w}
        /\ stack' = Append([stack EXCEPT ![Len(stack)].i = Top.i + 1], Frame(w))
    /\ UNCHANGED <<file, pc, row, col, cells, dependencies, todo, res, idx,
                   forced, run, prev>>

\* The dependent w is marked and not in recStack: the next dependent.
DfsSkip ==
    /\ pc = "sort"
    /\ stack # <<>>
    /\ Top.i <= Len(Dependents(Top.x))
    /\ LET w == Dependents(Top.x)[Top.i] IN
        /\ w \notin recStack
        /\ w \in marked
    /\ stack' = [stack EXCEPT ![Len(stack)].i = Top.i + 1]
    /\ UNCHANGED <<file, pc, row, col, cells, dependencies, todo, marked, recStack,
                   res, idx, forced, run, prev>>

\* The loop over the dependents is over: insert x into res, erase it from recStack,
\* return has_cycle.
DfsFinish ==
    /\ pc = "sort"
    /\ stack # <<>>
    /\ Top.i > Len(Dependents(Top.x))
    /\ res' = InsertFront(res, Top.x)
    /\ recStack' = recStack \ {Top.x}
    /\ Return(Top.has_cycle, res')
    /\ UNCHANGED <<file, pc, row, col, dependencies, todo, marked, idx, run, prev>>

\* topological_sort_dependencies returns res to resolve_dependencies.
EndSort ==
    /\ pc = "sort"
    /\ stack = <<>>
    /\ todo = {}
    /\ pc' = "walk"
    /\ idx' = 1
    /\ UNCHANGED <<file, row, col, cells, dependencies, todo, marked, recStack, res,
                   stack, forced, run, prev>>

\* One iteration of resolve_dependencies' loop: resolve_references, then
\* calculate_postfix unless the resolved formula is empty.
ResolveCell ==
    /\ pc = "walk"
    /\ idx <= Len(res)
    /\ LET cell_address == res[idx]
           resolved == resolve_references(cells, dependencies[cell_address].first)
       IN  /\ dependencies' = [dependencies EXCEPT ![cell_address].first = resolved]
           /\ cells' = IF resolved # <<>>
                       THEN (address_to_coords(cell_address) :>
                                 calculate_postfix(resolved)) @@ cells
                       ELSE cells
    /\ idx' = idx + 1
    /\ UNCHANGED <<file, pc, row, col, todo, marked, recStack, res, stack,
                   forced, run, prev>>

\* resolve_dependencies and parse_input return.
EndWalk ==
    /\ pc = "walk"
    /\ idx > Len(res)
    /\ pc' = "done"
    /\ UNCHANGED <<file, row, col, cells, dependencies, todo, marked, recStack, res,
                   stack, idx, forced, run, prev>>

\* main: clear() and a second parse_input, here of the same file.
ClearAndRerun ==
    /\ pc = "done"
    /\ run = 1
    /\ prev' = cells
    /\ run' = 2
    /\ cells' = EmptyMap
    /\ dependencies' = EmptyMap
    /\ pc' = "load"
    /\ row' = 0
    /\ col' = 0
    /\ todo' = {}
    /\ marked' = {}
    /\ recStack' = {}
    /\ res' = <<>>
    /\ idx' = 1
    /\ forced' = {}
    /\ UNCHANGED <<file, stack>>

Next ==
    \/ ParseCell
    \/ EndOfLine
    \/ BeginSort
    \/ VisitKey
    \/ SkipKey
    \/ DfsCycle
    \/ DfsDescend
    \/ DfsSkip
    \/ DfsFinish
    \/ EndSort
    \/ ResolveCell
    \/ EndWalk
    \/ ClearAndRerun

Spec == Init /\ [][Next]_vars

\* A session over a file without formulas: the registry stays empty.
NextCalc ==
    \/ ParseCell
    \/ EndOfLine
    \/ BeginSort
    \/ EndSort
    \/ EndWalk

SpecCalc == InitCalc /\ [][NextCalc]_vars

----------------------------------------------------------------------------
\* The reference graph of the input, for stating the properties

ValueAt(address) == CellAt(cells, address_to_coords(address))

IsWritten(address) ==
    LET coords == address_to_coords(address)
    IN  /\ coords[2] < Len(file)
        /\ coords[1] < Len(file[coords[2] + 1])
        /\ coords_to_address(coords) = address

ContentsOf(address) ==
    LET coords == address_to_coords(address)
    IN  file[coords[2] + 1][coords[1] + 1]

IsFormula(address) == IsWritten(address) /\ contains_letter(ContentsOf(address))

\* The addresses the formula of a cell references.
RefsOf(address) ==
    IF IsFormula(address)
    THEN LET c == ContentsOf(address)
         IN  {TokenText(c[i]) : i \in {j \in 1..Len(c) : c[j].kind = "addr"}}
    ELSE {}

RECURSIVE RefClosure(_)
RefClosure(S) ==
    LET T == S \cup UNION {RefsOf(x) : x \in S}
    IN  IF T = S THEN S ELSE RefClosure(T)

\* The addresses a cell reaches by one or more references.
Reaches(address) == RefClosure(RefsOf(address))

OnCycle(address) == address \in Reaches(address)

Acyclic == \A a \in Addresses : ~OnCycle(a)

\* References in either direction.
Linked(address) == RefsOf(address) \cup {b \in Addresses : address \in RefsOf(b)}

RECURSIVE LinkClosure(_)
LinkClosure(S) ==
    LET T == S \cup UNION {Linked(x) : x \in S}
    IN  IF T = S THEN S ELSE LinkClosure(T)

ConnectedToCycle(address) == \E b \in LinkClosure({address}) : OnCycle(b)

\* The value of a cell that reaches no cycle, from the input alone: a plain
\* expression evaluated, a formula evaluated over the values of its references,
\* no entry for an address the input does not write.
RECURSIVE Denote(_)
Denote(address) ==
    IF ~IsWritten(address) THEN Empty
    ELSE IF ~IsFormula(address) THEN calculate_postfix(ContentsOf(address))
    ELSE LET known == {y \in RefsOf(address) : Denote(y) # Empty}
             view == [c \in {address_to_coords(y) : y \in known} |->
                         Denote(coords_to_address(c))]
         IN  calculate_postfix(resolve_references(view, ContentsOf(address)))

\* Postfix evaluation as arithmetic defines it: an operator applies to the two
\* topmost values, the lower one on the left; division truncates toward zero.
\* The result is <<v>> for the value v, and <<>> when there is none.
RECURSIVE MathEval(_, _, _)
MathEval(expression, i, values) ==
    IF i > Len(expression)
    THEN IF Len(values) = 1 THEN values ELSE <<>>
    ELSE LET token == expression[i]
             n == Len(values)
         IN  IF token.kind = "int"
             THEN MathEval(expression, i + 1, Append(values, token.n))
             ELSE IF token.kind # "op" \/ n < 2 THEN <<>>
             ELSE LET right == values[n]
                      left == values[n - 1]
                      rest == SubSeq(values, 1, n - 2)
                  IN  IF token.op = "/" /\ right = 0 THEN <<>>
                      ELSE MathEval(expression, i + 1,
                               Append(rest,
                                      CASE token.op = "+" -> left + right
                                        [] token.op = "-" -> left - right
                                        [] token.op = "*" -> left * right
                                        [] token.op = "/" -> IntDiv(left, right)))

----------------------------------------------------------------------------
\* Properties

\* C1: when parse_input has returned, every cell on a reference cycle (a
\* self-reference included) holds Error, whatever the order in which the sort
\* visited the keys of the registry.
CycleCellsAreError ==
    pc = "done" => \A a \in Addresses : OnCycle(a) => ValueAt(a) = Error

\* A finished run over a cycle of two cells, both Error.
CycleCellsAreErrorWitness ==
    /\ pc = "done"
    /\ \E a, b \in Addresses :
        /\ a # b
        /\ b \in RefsOf(a)
        /\ a \in RefsOf(b)
        /\ ValueAt(a) = Error
        /\ ValueAt(b) = Error

\* C2: for an acyclic reference graph, in the order the sort returns and the
\* walk follows, every address comes strictly after every address its formula
\* references, also when the formula names an address twice.
TopologicalOrder ==
    (pc \in {"walk", "done"} /\ Acyclic) =>
        \A i \in 1..Len(res) : \A y \in RefsOf(res[i]) :
            /\ \E j \in 1..(i - 1) : res[j] = y
            /\ \A j \in i..Len(res) : res[j] # y

\* The walk has evaluated a chain of two references in an acyclic graph.
TopologicalOrderWitness ==
    /\ pc = "done"
    /\ Acyclic
    /\ \E a, b, c \in Addresses :
        /\ b \in RefsOf(a)
        /\ c \in RefsOf(b)
        /\ ValueAt(a).tag = "int"

\* C3: a formula with an address token whose cell ends without an integer
\* (no entry, or Error) ends as Error itself.
ErrorIsContagious ==
    pc = "done" =>
        \A a \in Addresses : \A y \in RefsOf(a) :
            ValueAt(y).tag # "int" => ValueAt(a) = Error

\* A finished run where a cell off every cycle references a cell on a cycle or
\* an address never written, and holds Error.
ErrorIsContagiousWitness ==
    /\ pc = "done"
    /\ \E a \in Addresses : \E y \in RefsOf(a) :
        /\ ~OnCycle(a)
        /\ \/ OnCycle(y)
           \/ ~IsWritten(y)
        /\ ValueAt(y).tag # "int"
        /\ ValueAt(a) = Error

\* C4: a cell that no chain of references, in either direction, connects to a
\* cell on a cycle ends with the value the input gives it without the cycle.
CycleOnlyAffectsImplicated ==
    pc = "done" =>
        \A a \in Addresses : ~ConnectedToCycle(a) => ValueAt(a) = Denote(a)

\* C5: a plain expression in valid postfix form ends with the value arithmetic
\* gives it: a b - is a-b, a b / is a/b truncated toward zero.
PostfixIsArithmetic ==
    pc = "done" =>
        LET m == MathEval(file[1][1], 1, <<>>)
        IN  m # <<>> => cells[<<0, 0>>] = IntValue(m[1])

\* C6: a cell holding a 0 / ends as Error.
DivisionByZeroIsError ==
    pc = "done" =>
        \A a \in Lits :
            file[1][1] = <<Num(a), Num(0), Op("/")>> => cells[<<0, 0>>] = Error

\* C7: an address a formula references and the input never writes has no entry
\* in cells at the end, and every formula referencing it is Error.
UnwrittenStaysEmpty ==
    pc = "done" =>
        \A u \in Addresses :
            (~IsWritten(u) /\ \E a \in Addresses : u \in RefsOf(a)) =>
                /\ address_to_coords(u) \notin DOMAIN cells
                /\ \A a \in Addresses : u \in RefsOf(a) => ValueAt(a) = Error

\* C8: a second session over the same input ends with the same cells as the
\* first, whatever order either visited the keys in.
SameCellsForEveryOrder ==
    (pc = "done" /\ run = 2) => cells = prev

\* C9: every address whose entry the sort set to Error holds Error when
\* parse_input has returned.
ForcedErrorIsFinal ==
    pc = "done" => \A a \in forced : ValueAt(a) = Error

\* C10: during the sort, recStack is the set of addresses of the active calls
\* of the helper, so it is empty between two root traversals.
RecStackIsCallChain ==
    pc = "sort" => recStack = {stack[i].x : i \in 1..Len(stack)}

====
